---- MODULE Spec2Model ----
(***************************************************************************)
(* Model of packages/dashboard/src-tauri/src/main.rs: the sessions         *)
(* directory, the external writer that changes it, the notification        *)
(* channel, the watcher thread of start_session_watcher, the get_sessions  *)
(* query and the forward_message / cancel_session commands.                *)
(*                                                                         *)
(* Strings are sequences of tokens, a token being "." or a dot-free word,  *)
(* so that "a.json" is <<"a", ".", "json">>.  An Option is a sequence of   *)
(* length at most one: None is <<>> and Some(x) is <<x>>.                  *)
(***************************************************************************)
EXTENDS Integers, Sequences, FiniteSets, TLC

VARIABLES
    home,       \* dirs::home_dir() resolves
    dirExists,  \* the sessions directory exists
    files,      \* name -> Option(text): the entries of the sessions directory
    writes,     \* number of moves of the environment: changes and error reports
    wpc,        \* position of the watcher thread
    mkdir,      \* the discarded result of fs::create_dir_all: "none", "ok", "err"
    backend,    \* the notify backend holding tx: "none", "live", "stopped"
    sent,       \* every item sent on the channel so far, in order
    recvd,      \* number of items the loop has taken from rx
    cur,        \* the batch being processed: [n, paths]
    events,     \* every app_handle.emit call so far, in order
    log,        \* every eprintln!/println! line so far, in order
    ui,         \* the UI boundary takes events: emit returns Ok
    gpc,        \* position of the get_sessions call
    gleft,      \* directory entries the call has still to visit
    gres,       \* the Vec<SessionState> under construction / returned
    gsnaps,     \* directory states seen between the call's start and its end
    calls,      \* number of get_sessions calls started
    cpc,        \* position of the forward_message / cancel_session call
    ccall,      \* the call's command and arguments
    cres,       \* the call's result
    spawns      \* number of times the call has run the external executable

vars == <<home, dirExists, files, writes, wpc, mkdir, backend, sent, recvd, cur,
          events, log, ui, gpc, gleft, gres, gsnaps, calls, cpc, ccall, cres,
          spawns>>

dirVars == <<dirExists, files, writes>>
watchVars == <<wpc, mkdir, backend, recvd, cur, events, log, ui>>
loadVars == <<gpc, gleft, gres, gsnaps, calls>>
cmdVars == <<cpc, ccall, cres, spawns>>

(***************************************************************************)
(* Bounds of the model.                                                    *)
(***************************************************************************)
MaxWrites == 2
MaxCalls == 1
MaxStderr == 2
MaxAllWrites == 1
MaxLiveWrites == 2

(***************************************************************************)
(* Options.                                                                *)
(***************************************************************************)
None == <<>>
Some(x) == <<x>>
IsSome(o) == Len(o) = 1
Get(o) == o[1]

(***************************************************************************)
(* File names and Path::extension / trim_end_matches.                      *)
(***************************************************************************)
A == <<"a", ".", "json">>
AJJ == <<"a", ".", "json", ".", "json">>
T == <<"a", ".", "tmp">>
Names == {A, AJJ, T}

JsonExt == <<"json">>
DotJson == <<".", "json">>

\* index of the last "." of a name, 0 when it has none
LastDot(name) ==
    LET dots == {i \in 1..Len(name) : name[i] = "."}
    IN IF dots = {} THEN 0 ELSE CHOOSE i \in dots : \A j \in dots : j <= i

\* Path::extension(): the part after the last ".", None when there is no "."
\* or when the only "." starts the name
Extension(name) ==
    IF LastDot(name) <= 1 THEN None
    ELSE Some(SubSeq(name, LastDot(name) + 1, Len(name)))

\* HasJsonExt with any extension accepted
HasJsonExtAny(name) == IsSome(Extension(name))

\* path.extension().map_or(false, |ext| ext == "json")
HasJsonExt(name) == IsSome(Extension(name)) /\ Get(Extension(name)) = JsonExt

EndsWith(s, pat) ==
    /\ Len(s) >= Len(pat)
    /\ SubSeq(s, Len(s) - Len(pat) + 1, Len(s)) = pat

\* str::trim_end_matches(pat): removes pat from the end repeatedly
RECURSIVE TrimEndMatches(_, _)
TrimEndMatches(s, pat) ==
    IF Len(pat) > 0 /\ EndsWith(s, pat)
    THEN TrimEndMatches(SubSeq(s, 1, Len(s) - Len(pat)), pat)
    ELSE s

(***************************************************************************)
(* File contents and serde_json::from_str::<SessionState>.                 *)
(***************************************************************************)
Str(s) == [t |-> "str", s |-> s, n |-> 0]
Num(n) == [t |-> "num", s |-> <<>>, n |-> n]

\* bytes that are not UTF-8
Unreadable == [utf8 |-> FALSE, syntax |-> FALSE, obj |-> <<>>]
\* text that is not JSON
Garbage == [utf8 |-> TRUE, syntax |-> FALSE, obj |-> <<>>]
\* a JSON object without the required field id
NoId == [utf8 |-> TRUE, syntax |-> TRUE, obj |-> ("issueNumber" :> Num(1))]
RecA == [utf8 |-> TRUE, syntax |-> TRUE,
         obj |-> ("id" :> Str(<<"a">>)) @@ ("issueNumber" :> Num(1))]
RecB == [utf8 |-> TRUE, syntax |-> TRUE,
         obj |-> ("id" :> Str(<<"b">>)) @@ ("issueNumber" :> Num(2))
                 @@ ("stuckReason" :> Str(<<"blocked">>))]
Texts == {Unreadable, Garbage, NoId, RecA, RecB}
\* the texts the external writer writes
WriteTexts == {Garbage, NoId, RecA, RecB}

Has(obj, k) == k \in DOMAIN obj

\* the struct SessionState, reduced to a required string, a required i32 and
\* an optional string
SessionOf(obj) ==
    [id |-> obj["id"].s,
     issue_number |-> obj["issueNumber"].n,
     stuck_reason |-> IF Has(obj, "stuckReason") /\ obj["stuckReason"].t = "str"
                      THEN Some(obj["stuckReason"].s) ELSE None]

\* Decode with a default in place of a failure
DecodeLax(text) ==
    IF text.syntax /\ Has(text.obj, "id") /\ Has(text.obj, "issueNumber")
    THEN Some(SessionOf(text.obj)) ELSE Some([id |-> <<>>, issue_number |-> 0,
                                              stuck_reason |-> None])
Decode(text) ==
    IF /\ text.syntax
       /\ Has(text.obj, "id") /\ text.obj["id"].t = "str"
       /\ Has(text.obj, "issueNumber") /\ text.obj["issueNumber"].t = "num"
       /\ (Has(text.obj, "stuckReason") =>
               text.obj["stuckReason"].t \in {"str", "null"})
    THEN Some(SessionOf(text.obj))
    ELSE None

\* fs::read_to_string(path), Ok as Some
ReadToString(name) ==
    IF IsSome(files[name]) /\ Get(files[name]).utf8 THEN files[name] ELSE None

\* read_to_string followed by from_str, Ok as Some
ReadSession(name) ==
    IF IsSome(ReadToString(name)) THEN Decode(Get(ReadToString(name))) ELSE None

(***************************************************************************)
(* The sessions directory and the external writer.  The directory lives    *)
(* under the home directory: without a home directory there is none.       *)
(***************************************************************************)
NoFiles == [name \in Names |-> None]

\* the directories a run starts from
InitDirs ==
    {NoFiles,
     [NoFiles EXCEPT ![A] = Some(RecA)],
     [NoFiles EXCEPT ![A] = Some(Garbage)],
     [NoFiles EXCEPT ![A] = Some(RecB), ![AJJ] = Some(Unreadable), ![T] = Some(RecA)]}

\* one Ok(Event) sent by the notify backend; kind, before and after record
\* the change that caused it and are not read by the watcher
Batch(kind, paths, after) ==
    [ok |-> TRUE, kind |-> kind, paths |-> paths, before |-> files, after |-> after]

ErrorItem ==
    [ok |-> FALSE, kind |-> "error", paths |-> <<>>, before |-> files, after |-> files]

\* the effect of one change of the directory on the rest of the system: the
\* backend reports it while the subscription is live, and a get_sessions
\* call in flight has one more directory state inside its interval
Changed(kind, paths, after) ==
    /\ files' = after
    /\ writes' = writes + 1
    /\ sent' = IF backend = "live" THEN Append(sent, Batch(kind, paths, after)) ELSE sent
    /\ gsnaps' = IF gpc = "iter" THEN gsnaps \cup {after} ELSE gsnaps
    /\ UNCHANGED <<home, dirExists, watchVars, gpc, gleft, gres, calls, cmdVars>>

MakeDir ==
    /\ home /\ ~dirExists
    /\ dirExists' = TRUE
    /\ UNCHANGED <<home, files, writes, sent, watchVars, loadVars, cmdVars>>

WriteFile(name, text, limit) ==
    /\ dirExists /\ writes < limit
    /\ files[name] # Some(text)
    /\ Changed(IF IsSome(files[name]) THEN "modify" ELSE "create", <<name>>,
               [files EXCEPT ![name] = Some(text)])

DeleteFile(name, limit) ==
    /\ dirExists /\ writes < limit
    /\ IsSome(files[name])
    /\ Changed("remove", <<name>>, [files EXCEPT ![name] = None])

RenameFile(from, to, limit) ==
    /\ dirExists /\ writes < limit
    /\ from # to /\ IsSome(files[from])
    /\ Changed("rename", <<from, to>>,
               [files EXCEPT ![from] = None, ![to] = files[from]])

(***************************************************************************)
(* The notify backend: besides the batches above it can report an error    *)
(* item, and it can drop tx, which ends the loop over rx once rx is empty. *)
(***************************************************************************)
Chan == SubSeq(sent, recvd + 1, Len(sent))

NotifyError(limit) ==
    /\ backend = "live" /\ writes < limit
    /\ writes' = writes + 1
    /\ sent' = Append(sent, ErrorItem)
    /\ UNCHANGED <<home, dirExists, files, watchVars, loadVars, cmdVars>>

BackendStop ==
    /\ backend = "live"
    /\ backend' = "stopped"
    /\ UNCHANGED <<home, dirVars, sent, wpc, mkdir, recvd, cur, events, log, ui,
                   loadVars, cmdVars>>

(***************************************************************************)
(* The watcher thread of start_session_watcher.                            *)
(***************************************************************************)
\* the states of the watcher's state machine, by position
Uninitialized == {"resolve", "create", "new", "watch"}
Watching == {"recv", "exists", "read"}

WatcherState ==
    CASE wpc \in Uninitialized -> "Uninitialized"
      [] wpc \in Watching -> "Watching"
      [] wpc = "error" -> "Error"
      [] wpc = "terminated" -> "Terminated"

\* UpdateEvent that names the session a second time
UpdateEventBoth(session) ==
    [event_type |-> "update", session |-> Some(session),
     session_id |-> Some(session.id)]

\* UpdateEvent with the tag of a first appearance
UpdateEventAdd(session) ==
    [event_type |-> "add", session |-> Some(session), session_id |-> None]

UpdateEvent(session) ==
    [event_type |-> "update", session |-> Some(session), session_id |-> None]

\* RemoveEvent with the extension left on
RemoveEventRaw(file_name) ==
    [event_type |-> "remove", session |-> None, session_id |-> Some(file_name)]

RemoveEvent(file_name) ==
    [event_type |-> "remove", session |-> None,
     session_id |-> Some(TrimEndMatches(file_name, DotJson))]

\* the number of get_sessions calls that have returned
Returned == IF gpc = "iter" THEN calls - 1 ELSE calls

\* Emit with a failed delivery reported
EmitLogged(event, path) ==
    /\ events' = Append(events, [event |-> event, n |-> cur.n, path |-> path,
                                 delivered |-> ui, after |-> Returned])
    /\ log' = IF ui THEN log ELSE Append(log, "Failed to emit event")

\* Emit with the newest event put before the ones already emitted
EmitFirst(event, path) ==
    /\ events' = <<[event |-> event, n |-> cur.n, path |-> path,
                    delivered |-> ui, after |-> Returned]>> \o events
    /\ log' = log

\* let _ = app_handle.emit("session-event", event): the call may fail, and
\* its result is dropped.  n, path, delivered and after record where the call
\* came from and are not part of the event
Emit(event, path) ==
    /\ events' = Append(events, [event |-> event, n |-> cur.n, path |-> path,
                                 delivered |-> ui, after |-> Returned])
    /\ log' = log

\* the position after the current path: the next path of the batch, or rx
NextPath ==
    /\ cur' = [cur EXCEPT !.paths = Tail(cur.paths)]
    /\ wpc' = IF Tail(cur.paths) = <<>> THEN "recv" ELSE "exists"

\* lines 122-128
WResolve ==
    /\ wpc = "resolve"
    /\ IF home
       THEN wpc' = "create" /\ log' = log
       ELSE /\ wpc' = "error"
            /\ log' = Append(log, "Could not determine sessions directory")
    /\ UNCHANGED <<home, dirVars, mkdir, backend, sent, recvd, cur, events, ui,
                   loadVars, cmdVars>>

\* WCreateDir with the failure reported and fatal
WCreateDirFatal ==
    /\ wpc = "create"
    /\ \E ok \in BOOLEAN :
        /\ dirExists => ok
        /\ mkdir' = IF ok THEN "ok" ELSE "err"
        /\ dirExists' = (dirExists \/ ok)
        /\ IF ok
           THEN wpc' = "new" /\ log' = log
           ELSE wpc' = "error" /\ log' = Append(log, "Failed to create directory")
    /\ UNCHANGED <<home, files, writes, backend, sent, recvd, cur, events, ui,
                   loadVars, cmdVars>>

\* line 131: create_dir_all succeeds when the directory exists; its result is
\* dropped
WCreateDir ==
    /\ wpc = "create"
    /\ \E ok \in BOOLEAN :
        /\ dirExists => ok
        /\ mkdir' = IF ok THEN "ok" ELSE "err"
        /\ dirExists' = (dirExists \/ ok)
    /\ wpc' = "new"
    /\ UNCHANGED <<home, files, writes, backend, sent, recvd, cur, events, log, ui,
                   loadVars, cmdVars>>

\* lines 133-142
WNewWatcher ==
    /\ wpc = "new"
    /\ \E ok \in BOOLEAN :
        IF ok
        THEN wpc' = "watch" /\ log' = log
        ELSE wpc' = "error" /\ log' = Append(log, "Failed to create watcher")
    /\ UNCHANGED <<home, dirVars, mkdir, backend, sent, recvd, cur, events, ui,
                   loadVars, cmdVars>>

\* WWatch with a retry: a failed subscription creates the watcher again
WWatchRetry ==
    /\ wpc = "watch"
    /\ \E ok \in BOOLEAN :
        /\ ok => dirExists
        /\ IF ok
           THEN /\ wpc' = "recv"
                /\ backend' = "live"
                /\ log' = Append(log, "Watching sessions directory")
           ELSE /\ wpc' = "new"
                /\ backend' = backend
                /\ log' = Append(log, "Failed to watch directory")
    /\ UNCHANGED <<home, dirVars, mkdir, sent, recvd, cur, events, ui,
                   loadVars, cmdVars>>

\* lines 144-149: a directory that does not exist cannot be watched
WWatch ==
    /\ wpc = "watch"
    /\ \E ok \in BOOLEAN :
        /\ ok => dirExists
        /\ IF ok
           THEN /\ wpc' = "recv"
                /\ backend' = "live"
                /\ log' = Append(log, "Watching sessions directory")
           ELSE /\ wpc' = "error"
                /\ backend' = backend
                /\ log' = Append(log, "Failed to watch directory")
    /\ UNCHANGED <<home, dirVars, mkdir, sent, recvd, cur, events, ui,
                   loadVars, cmdVars>>

\* WRecv with the loop left at the first error item
WRecvBreak ==
    /\ wpc = "recv" /\ Chan # <<>>
    /\ recvd' = recvd + 1
    /\ cur' = [n |-> recvd + 1, paths |-> Head(Chan).paths]
    /\ IF Head(Chan).ok
       THEN /\ wpc' = IF Head(Chan).paths = <<>> THEN "recv" ELSE "exists"
            /\ log' = log
       ELSE /\ wpc' = "terminated"
            /\ log' = Append(log, "Watch error")
    /\ UNCHANGED <<home, dirVars, mkdir, backend, sent, events, ui,
                   loadVars, cmdVars>>

\* lines 151-153 and 185-187: the next item of rx
WRecv ==
    /\ wpc = "recv" /\ Chan # <<>>
    /\ recvd' = recvd + 1
    /\ cur' = [n |-> recvd + 1, paths |-> Head(Chan).paths]
    /\ IF Head(Chan).ok
       THEN /\ wpc' = IF Head(Chan).paths = <<>> THEN "recv" ELSE "exists"
            /\ log' = log
       ELSE /\ wpc' = "recv"
            /\ log' = Append(log, "Watch error")
    /\ UNCHANGED <<home, dirVars, mkdir, backend, sent, events, ui,
                   loadVars, cmdVars>>

\* WExists deciding by the kind of the notification instead of path.exists()
WExistsByKind ==
    /\ wpc = "exists"
    /\ LET path == Head(cur.paths) IN
        IF ~HasJsonExt(path)
        THEN NextPath /\ UNCHANGED <<events, log>>
        ELSE IF sent[cur.n].kind # "remove"
        THEN wpc' = "read" /\ UNCHANGED <<cur, events, log>>
        ELSE NextPath /\ Emit(RemoveEvent(path), path)
    /\ UNCHANGED <<home, dirVars, mkdir, backend, sent, recvd, ui,
                   loadVars, cmdVars>>

\* WExists without the extension filter
WExistsAll ==
    /\ wpc = "exists"
    /\ LET path == Head(cur.paths) IN
        IF IsSome(files[path])
        THEN wpc' = "read" /\ UNCHANGED <<cur, events, log>>
        ELSE NextPath /\ Emit(RemoveEvent(path), path)
    /\ UNCHANGED <<home, dirVars, mkdir, backend, sent, recvd, ui,
                   loadVars, cmdVars>>

\* lines 155-160 and 172-181: the extension filter and path.exists()
WExists ==
    /\ wpc = "exists"
    /\ LET path == Head(cur.paths) IN
        IF ~HasJsonExt(path)
        THEN NextPath /\ UNCHANGED <<events, log>>
        ELSE IF IsSome(files[path])
        THEN wpc' = "read" /\ UNCHANGED <<cur, events, log>>
        ELSE NextPath /\ Emit(RemoveEvent(path), path)
    /\ UNCHANGED <<home, dirVars, mkdir, backend, sent, recvd, ui,
                   loadVars, cmdVars>>

\* WRead that deletes a file it cannot decode
WReadPrune ==
    /\ wpc = "read"
    /\ LET path == Head(cur.paths) IN
        IF IsSome(ReadSession(path))
        THEN Emit(UpdateEvent(Get(ReadSession(path))), path) /\ files' = files
        ELSE /\ UNCHANGED <<events, log>>
             /\ files' = [files EXCEPT ![path] = None]
    /\ NextPath
    /\ UNCHANGED <<home, dirExists, writes, mkdir, backend, sent, recvd, ui,
                   loadVars, cmdVars>>

\* WRead that reports a file it cannot decode as removed
WReadRemove ==
    /\ wpc = "read"
    /\ LET path == Head(cur.paths) IN
        IF IsSome(ReadSession(path))
        THEN Emit(UpdateEvent(Get(ReadSession(path))), path)
        ELSE Emit(RemoveEvent(path), path)
    /\ NextPath
    /\ UNCHANGED <<home, dirVars, mkdir, backend, sent, recvd, ui,
                   loadVars, cmdVars>>

\* lines 162-171: read, decode, emit
WRead ==
    /\ wpc = "read"
    /\ LET path == Head(cur.paths) IN
        IF IsSome(ReadSession(path))
        THEN Emit(UpdateEvent(Get(ReadSession(path))), path)
        ELSE UNCHANGED <<events, log>>
    /\ NextPath
    /\ UNCHANGED <<home, dirVars, mkdir, backend, sent, recvd, ui,
                   loadVars, cmdVars>>

\* line 189: the loop ends when every sender is gone and rx is empty
WDisconnected ==
    /\ wpc = "recv" /\ Chan = <<>> /\ backend = "stopped"
    /\ wpc' = "terminated"
    /\ UNCHANGED <<home, dirVars, mkdir, backend, sent, recvd, cur, events, log, ui,
                   loadVars, cmdVars>>

\* the UI boundary is torn down: from now on emit fails
UiClosed ==
    /\ ui /\ backend = "live"
    /\ ui' = FALSE
    /\ UNCHANGED <<home, dirVars, sent, wpc, mkdir, backend, recvd, cur, events, log,
                   loadVars, cmdVars>>

Watcher ==
    \/ WResolve \/ WCreateDir \/ WNewWatcher \/ WWatch
    \/ WRecv \/ WExists \/ WRead \/ WDisconnected

(***************************************************************************)
(* get_sessions and load_all_sessions.  read_dir lists the entries present *)
(* when the call starts, in an order the file system chooses; each entry   *)
(* is read when the loop reaches it.  An entry of the result carries the   *)
(* name it was read from, which the caller does not see.                   *)
(***************************************************************************)
\* GStart that serves nothing once the watcher thread has exited in Error
GStartWatched ==
    /\ gpc = "idle" /\ calls < MaxCalls
    /\ calls' = calls + 1
    /\ gres' = <<>>
    /\ gsnaps' = {files}
    /\ IF home /\ dirExists /\ wpc # "error"
       THEN gpc' = "iter" /\ gleft' = {name \in Names : IsSome(files[name])}
       ELSE gpc' = "done" /\ gleft' = {}
    /\ UNCHANGED <<home, dirVars, sent, watchVars, cmdVars>>

\* lines 83-87 and 63-65
GStart ==
    /\ gpc = "idle" /\ calls < MaxCalls
    /\ calls' = calls + 1
    /\ gres' = <<>>
    /\ gsnaps' = {files}
    /\ IF home /\ dirExists
       THEN gpc' = "iter" /\ gleft' = {name \in Names : IsSome(files[name])}
       ELSE gpc' = "done" /\ gleft' = {}
    /\ UNCHANGED <<home, dirVars, sent, watchVars, cmdVars>>

\* GVisit with the entry left in the iterator
GVisitAgain(name) ==
    /\ gpc = "iter" /\ name \in gleft
    /\ gleft' = gleft
    /\ Len(gres) < 3
    /\ gres' = IF HasJsonExt(name) /\ IsSome(ReadSession(name))
               THEN Append(gres, [session |-> Get(ReadSession(name)), name |-> name])
               ELSE gres
    /\ UNCHANGED <<home, dirVars, sent, watchVars, gpc, gsnaps, calls, cmdVars>>

\* GVisit that gives up the enumeration at an entry it cannot read or decode
GVisitStop(name) ==
    /\ gpc = "iter" /\ name \in gleft
    /\ IF HasJsonExt(name) /\ ~IsSome(ReadSession(name))
       THEN gleft' = {} /\ gres' = gres
       ELSE /\ gleft' = gleft \ {name}
            /\ gres' = IF HasJsonExt(name)
                       THEN Append(gres, [session |-> Get(ReadSession(name)),
                                          name |-> name])
                       ELSE gres
    /\ UNCHANGED <<home, dirVars, sent, watchVars, gpc, gsnaps, calls, cmdVars>>

\* lines 66-75: one entry of the directory
GVisit(name) ==
    /\ gpc = "iter" /\ name \in gleft
    /\ gleft' = gleft \ {name}
    /\ gres' = IF HasJsonExt(name) /\ IsSome(ReadSession(name))
               THEN Append(gres, [session |-> Get(ReadSession(name)), name |-> name])
               ELSE gres
    /\ UNCHANGED <<home, dirVars, sent, watchVars, gpc, gsnaps, calls, cmdVars>>

\* line 78
GReturn ==
    /\ gpc = "iter" /\ gleft = {}
    /\ gpc' = "done"
    /\ UNCHANGED <<home, dirVars, sent, watchVars, gleft, gres, gsnaps, calls, cmdVars>>

\* the caller takes the result
GTaken ==
    /\ gpc = "done"
    /\ gpc' = "idle"
    /\ UNCHANGED <<home, dirVars, sent, watchVars, gleft, gres, gsnaps, calls, cmdVars>>

Loader == GStart \/ (\E name \in Names : GVisit(name)) \/ GReturn \/ GTaken

Changes(limit) ==
    \/ \E name \in Names, text \in WriteTexts : WriteFile(name, text, limit)
    \/ \E name \in Names : DeleteFile(name, limit)
    \/ \E from \in Names, to \in Names : RenameFile(from, to, limit)

Writer(limit) == MakeDir \/ Changes(limit)

Environment(limit) == NotifyError(limit) \/ BackendStop \/ UiClosed

(***************************************************************************)
(* forward_message and cancel_session.  An outcome is what running the     *)
(* external executable gives: it could not be started (error), or it       *)
(* exited with a code and left bytes on its standard error.                *)
(***************************************************************************)
SessionIds == {<<"a">>, <<"b">>}
Messages == {<<"go">>, <<"stop", ".">>}
IoErrors == {<<"No such file or directory (os error 2)">>,
             <<"Permission denied (os error 13)">>}
\* a byte that is a character by itself, and one that is not valid UTF-8
Bytes == {"e", "xFF"}

RECURSIVE SeqsUpTo(_, _)
SeqsUpTo(S, n) ==
    IF n = 0 THEN {<<>>}
    ELSE SeqsUpTo(S, n - 1) \cup
         {Append(q, x) : q \in {r \in SeqsUpTo(S, n - 1) : Len(r) = n - 1}, x \in S}

Outcomes ==
    {[spawned |-> FALSE, error |-> e, code |-> 0, stderr |-> <<>>] : e \in IoErrors}
    \cup {[spawned |-> TRUE, error |-> <<>>, code |-> c, stderr |-> b] :
            c \in {0, 1}, b \in SeqsUpTo(Bytes, MaxStderr)}

\* String::from_utf8_lossy: an invalid byte becomes U+FFFD
FromUtf8Lossy(bytes) ==
    [i \in 1..Len(bytes) |-> IF bytes[i] = "xFF" THEN "uFFFD" ELSE bytes[i]]

Ok == [ok |-> TRUE, err |-> <<>>]
Err(text) == [ok |-> FALSE, err |-> text]

\* ForwardMessage with the spawn error passed on as it is
ForwardMessageBare(session_id, message, outcome) ==
    IF ~outcome.spawned
    THEN Err(outcome.error)
    ELSE IF outcome.code = 0 THEN Ok
    ELSE Err(FromUtf8Lossy(outcome.stderr))

\* lines 91-102
ForwardMessage(session_id, message, outcome) ==
    IF ~outcome.spawned
    THEN Err(<<"Failed to run orch forward: ">> \o outcome.error)
    ELSE IF outcome.code = 0 THEN Ok
    ELSE Err(FromUtf8Lossy(outcome.stderr))

\* lines 106-117
CancelSession(session_id, outcome) ==
    IF ~outcome.spawned
    THEN Err(<<"Failed to run orch cancel: ">> \o outcome.error)
    ELSE IF outcome.code = 0 THEN Ok
    ELSE Err(FromUtf8Lossy(outcome.stderr))

\* Command::new("orch").args([...])
Argv(call) ==
    IF call.cmd = "forward"
    THEN <<"orch", "forward", call.session_id, call.message>>
    ELSE <<"orch", "cancel", call.session_id>>

IdleCmd == [cmd |-> "none", session_id |-> <<>>, message |-> <<>>]

CForward(session_id, message) ==
    /\ cpc = "idle"
    /\ cpc' = "run"
    /\ ccall' = [cmd |-> "forward", session_id |-> session_id, message |-> message]
    /\ cres' = Ok /\ spawns' = <<>>
    /\ UNCHANGED <<home, dirVars, sent, watchVars, loadVars>>

CCancel(session_id) ==
    /\ cpc = "idle"
    /\ cpc' = "run"
    /\ ccall' = [cmd |-> "cancel", session_id |-> session_id, message |-> <<>>]
    /\ cres' = Ok /\ spawns' = <<>>
    /\ UNCHANGED <<home, dirVars, sent, watchVars, loadVars>>

\* .output(): the executable runs, or fails to start, and the call returns
CRun(outcome) ==
    /\ cpc = "run"
    /\ spawns' = Append(spawns, [argv |-> Argv(ccall), outcome |-> outcome])
    /\ cres' = IF ccall.cmd = "forward"
               THEN ForwardMessage(ccall.session_id, ccall.message, outcome)
               ELSE CancelSession(ccall.session_id, outcome)
    /\ cpc' = "done"
    /\ UNCHANGED <<home, dirVars, sent, watchVars, loadVars, ccall>>

\* the caller takes the result
CTaken ==
    /\ cpc = "done"
    /\ cpc' = "idle"
    /\ UNCHANGED <<home, dirVars, sent, watchVars, loadVars, ccall, cres, spawns>>

Commands ==
    \/ \E session_id \in SessionIds, message \in Messages : CForward(session_id, message)
    \/ \E session_id \in SessionIds : CCancel(session_id)
    \/ \E outcome \in Outcomes : CRun(outcome)
    \/ CTaken

Init ==
    /\ home \in BOOLEAN
    /\ dirExists \in BOOLEAN
    /\ dirExists => home
    /\ files \in InitDirs
    /\ ~dirExists => files = NoFiles
    /\ writes = 0
    /\ wpc = "resolve" /\ mkdir = "none" /\ backend = "none"
    /\ sent = <<>> /\ recvd = 0 /\ cur = [n |-> 0, paths |-> <<>>]
    /\ events = <<>> /\ log = <<>> /\ ui = TRUE
    /\ gpc = "idle" /\ gleft = {} /\ gres = <<>> /\ gsnaps = {} /\ calls = 0
    /\ cpc = "idle" /\ ccall = IdleCmd /\ cres = Ok /\ spawns = <<>>

(***************************************************************************)
(* Specifications.  Spec is the watcher with the writer, the backend and   *)
(* the UI boundary; SpecLoad is get_sessions with the writer; SpecAll runs *)
(* the watcher and get_sessions side by side; SpecCmd is the two commands; *)
(* SpecLive is the watcher thread scheduled fairly, as the operating       *)
(* system schedules a runnable thread, over a directory that exists;       *)
(* SpecServe is the watcher's setup with get_sessions and the commands     *)
(* called at any time, before, during or after it.                         *)
(***************************************************************************)
Next == Watcher \/ Writer(MaxWrites) \/ Environment(MaxWrites)

Spec == Init /\ [][Next]_vars

NextLoad == Loader \/ Writer(MaxWrites)

SpecLoad == Init /\ [][NextLoad]_vars

NextAll ==
    Watcher \/ Writer(MaxAllWrites) \/ NotifyError(MaxAllWrites) \/ BackendStop \/ Loader

SpecAll == Init /\ [][NextAll]_vars

NextCmd == Commands

SpecCmd == Init /\ [][NextCmd]_vars

\* the setup of the watcher thread, lines 122-149
WatcherSetup == WResolve \/ WCreateDir \/ WNewWatcher \/ WWatch

NextServe == WatcherSetup \/ MakeDir \/ Loader \/ Commands

SpecServe == Init /\ [][NextServe]_vars

InitLive == Init /\ files = [NoFiles EXCEPT ![A] = Some(RecA)]

NextLive == Watcher \/ Changes(MaxLiveWrites) \/ NotifyError(MaxLiveWrites) \/ BackendStop

SpecLive == InitLive /\ [][NextLive]_vars /\ WF_vars(Watcher)

(***************************************************************************)
(* Definitions shared by the properties.                                   *)
(***************************************************************************)
\* item n of the channel has been taken and its paths are all processed
Handled(n) == recvd > n \/ (recvd = n /\ wpc \notin {"exists", "read"})

\* the emit calls made while batch n was processed
EventsOf(n) == SelectSeq(events, LAMBDA e : e.n = n)

Last(q) == q[Len(q)]

\* the step appends exactly one emit call
EmitsOne == Len(events') = Len(events) + 1 /\ SubSeq(events', 1, Len(events)) = events

Rank(pc) ==
    CASE pc = "resolve" -> 0
      [] pc = "create" -> 1
      [] pc = "new" -> 2
      [] pc = "watch" -> 3
      [] pc \in Watching -> 4
      [] OTHER -> 5

FailureLines ==
    {"Could not determine sessions directory", "Failed to create watcher",
     "Failed to watch directory"}

(***************************************************************************)
(* The texts of the model and what each must decode to, written out.       *)
(***************************************************************************)
SessA == [id |-> <<"a">>, issue_number |-> 1, stuck_reason |-> None]
SessB == [id |-> <<"b">>, issue_number |-> 2, stuck_reason |-> Some(<<"blocked">>)]

GoodTexts == {RecA, RecB}
BadTexts == {Unreadable, Garbage, NoId}

Expected(text) == IF text = RecA THEN SessA ELSE SessB

\* the name ends in ".json" and has something before it
IsRecordName(name) == Len(name) > 2 /\ EndsWith(name, DotJson)

\* the record files of a directory that hold a valid record
GoodFiles(dir) ==
    {name \in Names : IsRecordName(name) /\ IsSome(dir[name]) /\ Get(dir[name]) \in GoodTexts}

NoRepeat(res) == \A i, j \in 1..Len(res) : res[i].name = res[j].name => i = j

(***************************************************************************)
(* Notifications and what the code makes of them.                          *)
(***************************************************************************)
Payloads(q) == [i \in 1..Len(q) |-> q[i].event]

\* item n reports the creation of a record file with valid content
IsCreate(n) ==
    /\ n \in 1..Len(sent) /\ sent[n].kind = "create"
    /\ IsRecordName(sent[n].paths[1])
    /\ Get(sent[n].after[sent[n].paths[1]]) \in GoodTexts

\* item n reports the deletion of a record file
IsDelete(n) ==
    /\ n \in 1..Len(sent) /\ sent[n].kind = "remove"
    /\ IsRecordName(sent[n].paths[1])

\* the text the creation reported by item n wrote
Created(n) == Get(sent[n].after[sent[n].paths[1]])

\* the name without its last "." and what follows it
Stem(name) == SubSeq(name, 1, LastDot(name) - 1)

\* id is the name with every ".json" at its end removed
StrippedOf(id, name) ==
    /\ ~EndsWith(id, DotJson)
    /\ \E k \in 1..Len(name) :
         /\ Len(name) = Len(id) + 2 * k
         /\ SubSeq(name, 1, Len(id)) = id
         /\ \A i \in 1..k : SubSeq(name, Len(id) + 2 * i - 1, Len(id) + 2 * i) = DotJson

\* every item sent on the channel is taken and processed to the end
AllHandled == \A n \in 1..MaxLiveWrites : (Len(sent) >= n) ~> Handled(n)

(***************************************************************************)
(* C1, as the code has it: every notification the backend reports for the *)
(* creation of a valid record file is eventually processed, and at most    *)
(* one event is emitted for it.  When the file still holds the created     *)
(* content as the watcher reads it, that event is an update carrying the   *)
(* session decoded from that content; a file changed in between gives what *)
(* its state at processing time gives.                                     *)
(***************************************************************************)
C1_CreateYieldsUpdate ==
    /\ AllHandled
    /\ [](\A n \in 1..Len(sent) : IsCreate(n) => Len(EventsOf(n)) <= 1)
    /\ [][/\ wpc = "read" /\ cur' # cur /\ IsCreate(cur.n)
          /\ files[Head(cur.paths)] = Some(Created(cur.n))
          => /\ EmitsOne
             /\ Last(events').n = cur.n
             /\ Last(events').event =
                  [event_type |-> "update",
                   session |-> Some(Expected(Created(cur.n))),
                   session_id |-> None]]_vars

\* a creation was reported and processed, and its one event is the update
C1_Witness ==
    \E n \in 1..Len(sent) :
        /\ IsCreate(n) /\ Handled(n)
        /\ Len(EventsOf(n)) = 1
        /\ EventsOf(n)[1].event.event_type = "update"
        /\ EventsOf(n)[1].event.session = Some(Expected(Created(n)))

\* C1 as stated: once the notification of a creation is processed, exactly
\* one event has come of it, the update with the created content
C1_Original ==
    \A n \in 1..Len(sent) :
        IsCreate(n) /\ Handled(n) =>
            Payloads(EventsOf(n)) =
                <<[event_type |-> "update", session |-> Some(Expected(Created(n))),
                   session_id |-> None]>>

(***************************************************************************)
(* C2, as the code has it: every notification the backend reports for the *)
(* deletion of a record file is eventually processed, and at most one      *)
(* event is emitted for it.  When the file is still absent as the watcher  *)
(* checks it, that event is a remove whose sessionId is the file name with *)
(* every ".json" at its end removed; a file created again in between gives *)
(* what its state at processing time gives.                                *)
(***************************************************************************)
C2_DeleteYieldsRemove ==
    /\ AllHandled
    /\ [](\A n \in 1..Len(sent) : IsDelete(n) => Len(EventsOf(n)) <= 1)
    /\ [][/\ wpc = "exists" /\ cur' # cur /\ IsDelete(cur.n)
          /\ files[Head(cur.paths)] = None
          => /\ EmitsOne
             /\ Last(events').n = cur.n
             /\ Last(events').event.event_type = "remove"
             /\ Last(events').event.session = None
             /\ IsSome(Last(events').event.session_id)
             /\ StrippedOf(Get(Last(events').event.session_id), Head(cur.paths))]_vars

\* a deletion was reported and processed, and its one event is the remove
C2_Witness ==
    \E n \in 1..Len(sent) :
        /\ IsDelete(n) /\ Handled(n)
        /\ Len(EventsOf(n)) = 1
        /\ EventsOf(n)[1].event.event_type = "remove"
        /\ EventsOf(n)[1].event.session_id = Some(<<"a">>)

\* C2 as stated: once the notification of the deletion of <id>.json is
\* processed, exactly one event has come of it, the remove of <id>; stated
\* here for the names whose <id> does not itself end in ".json"
C2_Original ==
    \A n \in 1..Len(sent) :
        IsDelete(n) /\ ~EndsWith(Stem(sent[n].paths[1]), DotJson) /\ Handled(n) =>
            Payloads(EventsOf(n)) =
                <<[event_type |-> "remove", session |-> None,
                   session_id |-> Some(Stem(sent[n].paths[1]))]>>

(***************************************************************************)
(* C3, as the code has it: a record file whose content is not valid never  *)
(* appears in a result of get_sessions, and no update event is made from   *)
(* it: the loader's visit of such a file adds nothing and the call goes    *)
(* on, and the watcher's read of such a file emits nothing and leaves the  *)
(* watcher in Watching.  Every session returned or emitted is the decoding *)
(* of a valid text.  (A path that is gone when it is processed gives a     *)
(* remove event, whatever the file held.)                                  *)
(***************************************************************************)
C3_InvalidSkipped ==
    /\ [](\A i \in 1..Len(gres) : gres[i].session \in {SessA, SessB})
    /\ [](\A i \in 1..Len(events) :
            events[i].event.event_type = "update" =>
                /\ IsSome(events[i].event.session)
                /\ Get(events[i].event.session) \in {SessA, SessB})
    /\ [][/\ wpc = "read" /\ cur' # cur
          /\ IsSome(files[Head(cur.paths)])
          /\ Get(files[Head(cur.paths)]) \in BadTexts
          => events' = events /\ wpc' \in Watching]_vars
    /\ [][\A name \in Names :
            /\ gpc = "iter" /\ name \in gleft /\ name \notin gleft'
            /\ IsSome(files[name]) /\ Get(files[name]) \in BadTexts
            => gres' = gres /\ gpc' = "iter"]_vars

\* the watcher has read a record file with invalid content and emitted
\* nothing for it, and a call has returned without the file
C3_Witness ==
    /\ \E n \in 1..Len(sent) :
         /\ sent[n].ok /\ sent[n].kind \in {"create", "modify"}
         /\ IsRecordName(sent[n].paths[1])
         /\ files[sent[n].paths[1]] = sent[n].after[sent[n].paths[1]]
         /\ Get(files[sent[n].paths[1]]) \in BadTexts
         /\ Handled(n) /\ EventsOf(n) = <<>>
    /\ gpc = "done" /\ gsnaps = {files}
    /\ \A i \in 1..Len(gres) : Get(files[gres[i].name]) \in GoodTexts

\* the change item n reports left the file at that path invalid wherever it
\* existed, before and after
InvalidChange(n, path) ==
    /\ sent[n].ok /\ IsRecordName(path)
    /\ IsSome(sent[n].before[path]) \/ IsSome(sent[n].after[path])
    /\ IsSome(sent[n].before[path]) => Get(sent[n].before[path]) \in BadTexts
    /\ IsSome(sent[n].after[path]) => Get(sent[n].after[path]) \in BadTexts

\* C3 as stated: no change to a record file with invalid content gives an
\* event
C3_Original ==
    \A i \in 1..Len(events) : ~InvalidChange(events[i].n, events[i].path)

(***************************************************************************)
(* C4: when the directory does not change during the call, get_sessions    *)
(* returns one record for each record file holding a valid record, the     *)
(* decoding of that file, and nothing else; so the records returned are a  *)
(* function of the directory alone, whatever the order of enumeration.     *)
(***************************************************************************)
C4_SnapshotExact ==
    gpc = "done" /\ Cardinality(gsnaps) = 1 =>
        LET dir == CHOOSE d \in gsnaps : TRUE IN
        /\ NoRepeat(gres)
        /\ {gres[i].name : i \in 1..Len(gres)} = GoodFiles(dir)
        /\ \A i \in 1..Len(gres) : gres[i].session = Expected(Get(dir[gres[i].name]))

\* a call over an unchanging directory returned two records and left out an
\* entry of the directory
C4_Witness ==
    /\ gpc = "done" /\ gsnaps = {files}
    /\ Len(gres) = 2
    /\ \E name \in Names : IsSome(files[name]) /\ name \notin GoodFiles(files)

(***************************************************************************)
(* C5, as the code has it: a call interleaved with changes of the          *)
(* directory returns, at most one record per file, each the decoding of a  *)
(* valid content its file held at some instant of the call; the instants   *)
(* of different files may differ.  A record file present with valid        *)
(* content at every instant of the call is in the result.                  *)
(***************************************************************************)
C5_PerFileConsistent ==
    /\ gpc \in {"idle", "iter", "done"}
    /\ gpc \in {"iter", "done"} =>
        /\ NoRepeat(gres)
        /\ \A i \in 1..Len(gres) :
             \E d \in gsnaps :
                /\ gres[i].name \in GoodFiles(d)
                /\ gres[i].session = Expected(Get(d[gres[i].name]))
    /\ gpc = "done" =>
        \A name \in Names :
            (\A d \in gsnaps : name \in GoodFiles(d)) =>
                \E i \in 1..Len(gres) : gres[i].name = name

\* the sessions a result holds
ResultSet == {gres[i].session : i \in 1..Len(gres)}

\* the sessions a directory holds
GoodSet(dir) == {Expected(Get(dir[name])) : name \in GoodFiles(dir)}

\* a call has returned a set of sessions the directory never held
C5_Witness ==
    /\ gpc = "done" /\ Cardinality(gsnaps) = 3
    /\ Len(gres) = 2
    /\ \A d \in gsnaps : GoodSet(d) # ResultSet

\* C5 as stated: the set returned is the set of valid records of the
\* directory at one instant of the call
C5_Original ==
    gpc = "done" => \E d \in gsnaps : GoodSet(d) = ResultSet

(***************************************************************************)
(* C6, as the code has it: a call runs the executable once, with the       *)
(* subcommand and the arguments of the call.  Exit zero gives Ok; a        *)
(* non-zero exit gives the standard error bytes as text, an invalid byte   *)
(* replaced by U+FFFD; a failure to start gives "Failed to run orch        *)
(* forward: " or "Failed to run orch cancel: " followed by the spawn       *)
(* error's message.                                                        *)
(***************************************************************************)
C6_CommandResult ==
    cpc = "done" =>
        /\ Len(spawns) = 1
        /\ spawns[1].argv[1] = "orch" /\ spawns[1].argv[2] = ccall.cmd
        /\ spawns[1].argv[3] = ccall.session_id
        /\ (ccall.cmd = "forward" => spawns[1].argv[4] = ccall.message)
        /\ LET o == spawns[1].outcome IN
           /\ (o.spawned /\ o.code = 0 => cres.ok /\ cres.err = <<>>)
           /\ (o.spawned /\ o.code # 0 =>
                 /\ ~cres.ok /\ Len(cres.err) = Len(o.stderr)
                 /\ \A i \in 1..Len(o.stderr) :
                      cres.err[i] = IF o.stderr[i] = "xFF" THEN "uFFFD" ELSE o.stderr[i])
           /\ (~o.spawned =>
                 /\ ~cres.ok
                 /\ cres.err[1] = IF ccall.cmd = "forward"
                                  THEN "Failed to run orch forward: "
                                  ELSE "Failed to run orch cancel: "
                 /\ Tail(cres.err) = o.error)

\* forward_message has returned after the executable failed to start
C6_Witness ==
    /\ cpc = "done" /\ ccall.cmd = "forward"
    /\ ~spawns[1].outcome.spawned /\ ~cres.ok

\* C6 as stated: the spawn error's message is the error, as it is
C6_Original ==
    cpc = "done" =>
        /\ Len(spawns) = 1
        /\ LET o == spawns[1].outcome IN
           /\ (o.spawned /\ o.code = 0 => cres.ok)
           /\ (o.spawned /\ o.code # 0 => ~cres.ok /\ cres.err = FromUtf8Lossy(o.stderr))
           /\ (~o.spawned => ~cres.ok /\ cres.err = o.error)

C8_StateMachine ==
    [][/\ Rank(wpc') >= Rank(wpc)
       /\ (wpc \in Uninitialized /\ wpc' # wpc => Rank(wpc') > Rank(wpc))
       /\ (wpc' = "terminated" => wpc \in Watching \cup {"terminated"})
       /\ (wpc \in Uninitialized /\ Len(log') > Len(log) /\ Last(log') \in FailureLines
             => wpc' = "error")
       /\ (wpc \in {"error", "terminated"} => wpc' = wpc /\ events' = events)
       /\ (events' # events => wpc \in Watching /\ wpc' \in Watching)]_vars

\* the loop over rx has ended after events were emitted
C8_Witness == wpc = "terminated" /\ events # <<>> /\ writes = MaxWrites

(***************************************************************************)
(* C9: the step that takes an error item from rx writes the "Watch error"  *)
(* line, emits nothing and leaves the watcher in Watching, and every item  *)
(* sent on the channel, before or after the error, is processed.           *)
(***************************************************************************)
C9_ErrorItemSkipped ==
    /\ AllHandled
    /\ [][recvd' = recvd + 1 /\ ~sent[recvd + 1].ok
          => /\ log' = Append(log, "Watch error")
             /\ events' = events
             /\ wpc' \in Watching]_vars

\* an error item was taken, and a batch sent after it gave an event
C9_Witness ==
    \E k, n \in 1..Len(sent) :
        /\ k < n /\ ~sent[k].ok /\ sent[n].ok
        /\ Handled(n) /\ EventsOf(n) # <<>>

(***************************************************************************)
(* C10, as the code has it: a failed emit is dropped without a log line.   *)
(* The step that makes the failed call leaves the log alone, keeps the     *)
(* watcher in Watching and moves on to the next path of the batch (or to   *)
(* rx); every emit call is for the path being processed, and no path of a  *)
(* batch is emitted for twice: nothing is queued or sent again.            *)
(***************************************************************************)
C10_EmitFailureDropped ==
    /\ [][Len(events') > Len(events) =>
            /\ EmitsOne
            /\ Last(events').n = cur.n /\ Last(events').path = Head(cur.paths)
            /\ (~Last(events').delivered =>
                  /\ log' = log
                  /\ wpc' \in Watching
                  /\ cur'.paths = Tail(cur.paths))]_vars
    /\ [](\A i, j \in 1..Len(events) :
            events[i].n = events[j].n /\ events[i].path = events[j].path => i = j)

\* a failed emit for one path of a batch, then an emit for the next path
C10_Witness ==
    \E i \in 1..Len(events) :
        /\ i < Len(events)
        /\ ~events[i].delivered
        /\ events[i + 1].n = events[i].n
        /\ events[i + 1].path # events[i].path

\* C10 as stated: the step whose emit fails writes a log line
C10_Original ==
    [][Len(events') > Len(events) /\ ~Last(events').delivered
         => Len(log') > Len(log)]_vars

(***************************************************************************)
(* C11: the events of one file are emitted in the order in which the       *)
(* backend reported the notifications for that file.  Every emit call      *)
(* comes from a batch that lists its path, and of two emit calls for the   *)
(* same path the earlier one comes from the batch reported earlier.        *)
(***************************************************************************)
PathsOf(n) == {sent[n].paths[k] : k \in 1..Len(sent[n].paths)}

C11_PerFileOrder ==
    /\ \A i \in 1..Len(events) :
         /\ events[i].n \in 1..Len(sent)
         /\ sent[events[i].n].ok
         /\ events[i].path \in PathsOf(events[i].n)
    /\ \A i, j \in 1..Len(events) :
         i < j /\ events[i].path = events[j].path => events[i].n < events[j].n

\* two notifications for one file have each given an event
C11_Witness ==
    \E i, j \in 1..Len(events) :
        /\ i < j /\ events[i].path = events[j].path
        /\ events[i].n < events[j].n
        /\ events[i].event.event_type # events[j].event.event_type

(***************************************************************************)
(* C12: every emit call carries an event of one of two shapes: an update   *)
(* with a session and no sessionId, or a remove with a sessionId and no    *)
(* session.  No event is tagged "add", and none has both or neither of     *)
(* session and sessionId.                                                  *)
(***************************************************************************)
C12_EventShape ==
    \A i \in 1..Len(events) :
        LET e == events[i].event IN
        \/ /\ e.event_type = "update"
           /\ Len(e.session) = 1 /\ e.session[1] \in {SessA, SessB}
           /\ e.session_id = <<>>
        \/ /\ e.event_type = "remove"
           /\ e.session = <<>>
           /\ Len(e.session_id) = 1 /\ e.session_id[1] = <<"a">>

\* an update and a remove have both been emitted
C12_Witness ==
    /\ \E i \in 1..Len(events) : events[i].event.event_type = "update"
    /\ \E i \in 1..Len(events) : events[i].event.event_type = "remove"

(***************************************************************************)
(* C13: what is emitted for a notified path is decided by the file at the  *)
(* moment the path is processed, whatever kind of change the notification  *)
(* reported.  A record path that does not exist when it is checked gives   *)
(* one remove event in that step; one that exists gives no remove, it is   *)
(* read, and the read gives one update event when the content read decodes *)
(* and nothing otherwise.                                                  *)
(***************************************************************************)
C13_ExistenceDecides ==
    /\ [][/\ wpc = "exists" /\ (wpc' # wpc \/ cur' # cur)
          /\ IsRecordName(Head(cur.paths))
          => IF files[Head(cur.paths)] = <<>>
             THEN /\ EmitsOne
                  /\ Last(events').n = cur.n
                  /\ Last(events').path = Head(cur.paths)
                  /\ Last(events').event.event_type = "remove"
             ELSE events' = events /\ wpc' = "read" /\ cur' = cur]_vars
    /\ [][/\ wpc = "read" /\ cur' # cur
          => IF /\ files[Head(cur.paths)] # <<>>
                /\ files[Head(cur.paths)][1] \in GoodTexts
             THEN /\ EmitsOne
                  /\ Last(events').n = cur.n
                  /\ Last(events').path = Head(cur.paths)
                  /\ Last(events').event.event_type = "update"
                  /\ Last(events').event.session =
                        <<Expected(files[Head(cur.paths)][1])>>
             ELSE events' = events]_vars

\* the notification of a deletion gave an update, the file having been
\* written again before the path was processed
C13_Witness ==
    \E n \in 1..Len(sent) :
        /\ sent[n].kind = "remove" /\ Handled(n)
        /\ Len(EventsOf(n)) = 1
        /\ EventsOf(n)[1].event.event_type = "update"

(***************************************************************************)
(* C14: no step of the core changes an entry of the sessions directory.    *)
(* A step that changes the entries is a step of the external writer: it    *)
(* moves neither the watcher nor a get_sessions call nor a command.  (The  *)
(* watcher's startup may create the directory itself; a directory it       *)
(* creates is empty.)                                                      *)
(***************************************************************************)
C14_CoreNeverWrites ==
    [][/\ (files' # files =>
             /\ writes' = writes + 1
             /\ <<wpc, mkdir, recvd, cur, events, log>>' =
                    <<wpc, mkdir, recvd, cur, events, log>>
             /\ <<gpc, gleft, gres, calls>>' = <<gpc, gleft, gres, calls>>
             /\ cmdVars' = cmdVars)
       /\ (dirExists' # dirExists => files = NoFiles /\ files' = NoFiles)]_vars

\* the watcher has read a file it could not decode and get_sessions has
\* returned, and the directory is as the writer's last change left it
C14_Witness ==
    /\ Len(sent) > 0 /\ Handled(Len(sent))
    /\ sent[Len(sent)].ok /\ files = sent[Len(sent)].after
    /\ \E name \in Names : IsRecordName(name) /\ files[name] = <<Garbage>>
    /\ gpc = "done" /\ gres = <<>> /\ gleft = {}

(***************************************************************************)
(* C15: get_sessions never fails.  Without a home directory or without the *)
(* sessions directory the call returns the empty sequence.  Otherwise it   *)
(* visits every entry it listed: an entry that is not a record file or     *)
(* that cannot be read or decoded adds nothing and the enumeration goes on *)
(* with the other entries; an entry holding a valid record adds that       *)
(* record, whatever was skipped before it.                                 *)
(***************************************************************************)
C15_LoaderTolerant ==
    /\ [][gpc = "idle" /\ gpc' # "idle" =>
            /\ gres' = <<>>
            /\ IF home /\ dirExists
               THEN gpc' = "iter" /\ gleft' = {name \in Names : files[name] # <<>>}
               ELSE gpc' = "done"]_vars
    /\ [][\A name \in Names :
            gpc = "iter" /\ name \in gleft /\ name \notin gleft' =>
                /\ gleft' = gleft \ {name}
                /\ gpc' = "iter"
                /\ gres' = IF name \in GoodFiles(files)
                           THEN Append(gres, [session |-> Expected(files[name][1]),
                                              name |-> name])
                           ELSE gres]_vars
    /\ [][gpc = "iter" /\ gpc' # "iter" => gpc' = "done" /\ gleft = {} /\ gres' = gres]_vars

\* a call has returned the one valid record of a directory that also holds
\* a record file it could not read
C15_Witness ==
    /\ gpc = "done" /\ gsnaps = {files}
    /\ Len(gres) = 1 /\ gres[1].name \in GoodFiles(files)
    /\ \E name \in Names : IsRecordName(name) /\ files[name] = <<Unreadable>>

(***************************************************************************)
(* C16: get_sessions, forward_message and cancel_session read nothing of   *)
(* the watcher thread.  After the thread has exited in Error a call can    *)
(* still be started, every started call can take its next step, and each   *)
(* step gives what it gives with a running watcher: get_sessions lists the *)
(* directory and returns its valid records, a command runs the executable  *)
(* once and returns what its outcome determines.  Only events are missing: *)
(* in Error there is no subscription and nothing has been emitted.         *)
(***************************************************************************)
\* the result of a command whose run of the executable ended in outcome o
ResultOf(cmd, o) ==
    IF o.spawned /\ o.code = 0 THEN [ok |-> TRUE, err |-> <<>>]
    ELSE IF o.spawned
    THEN [ok |-> FALSE,
          err |-> [i \in 1..Len(o.stderr) |->
                     IF o.stderr[i] = "xFF" THEN "uFFFD" ELSE o.stderr[i]]]
    ELSE [ok |-> FALSE,
          err |-> <<IF cmd = "forward" THEN "Failed to run orch forward: "
                    ELSE "Failed to run orch cancel: ">> \o o.error]

C16_ServesAfterSetupFailure ==
    /\ [](wpc = "error" =>
            /\ backend = "none" /\ events = <<>>
            /\ (gpc = "idle" /\ calls < MaxCalls => ENABLED GStart)
            /\ (gpc = "iter" => ENABLED (GReturn \/ \E name \in Names : GVisit(name)))
            /\ (cpc = "idle" => \A id \in SessionIds : ENABLED CCancel(id))
            /\ (cpc = "idle" => \A id \in SessionIds, msg \in Messages :
                                    ENABLED CForward(id, msg))
            /\ (cpc = "run" => \A o \in Outcomes : ENABLED CRun(o)))
    /\ [][wpc = "error" /\ gpc = "idle" /\ gpc' # "idle" =>
            /\ gres' = <<>>
            /\ IF home /\ dirExists
               THEN gpc' = "iter" /\ gleft' = {name \in Names : files[name] # <<>>}
               ELSE gpc' = "done"]_vars
    /\ [](wpc = "error" /\ gpc = "done" =>
            /\ NoRepeat(gres)
            /\ {gres[i].name : i \in 1..Len(gres)} \subseteq GoodFiles(files)
            /\ \A i \in 1..Len(gres) : gres[i].session = Expected(files[gres[i].name][1])
            /\ (gleft = {} /\ gsnaps = {files} =>
                  {gres[i].name : i \in 1..Len(gres)} = GoodFiles(files)))
    /\ [][wpc = "error" /\ cpc = "run" /\ cpc' # "run" =>
            /\ cpc' = "done"
            /\ Len(spawns') = Len(spawns) + 1 /\ Len(spawns') = 1
            /\ spawns'[1].argv = IF ccall.cmd = "forward"
                                 THEN <<"orch", "forward", ccall.session_id, ccall.message>>
                                 ELSE <<"orch", "cancel", ccall.session_id>>
            /\ cres' = ResultOf(ccall.cmd, spawns'[1].outcome)]_vars

\* with the watcher thread in Error, get_sessions has returned a record and
\* a command has returned the error of the executable
C16_Witness ==
    /\ wpc = "error" /\ dirExists
    /\ gpc = "done" /\ Len(gres) = 1
    /\ cpc = "done" /\ ~cres.ok /\ spawns[1].outcome.spawned

(***************************************************************************)
(* C17: the sessionId of a remove event is the file name of the notified   *)
(* path with one trailing ".json" taken off, also for a name such as       *)
(* a.json.json, whose stem is a.json.                                      *)
(***************************************************************************)
C17_StemOnce ==
    \A i \in 1..Len(events) :
        events[i].event.event_type = "remove" =>
            /\ IsRecordName(events[i].path)
            /\ events[i].event.session_id = <<Stem(events[i].path)>>

\* the deletion of a.json.json has been processed and its remove event
\* names the session a
C17_Witness ==
    \E i \in 1..Len(events) :
        /\ events[i].path = AJJ
        /\ events[i].event.event_type = "remove"
        /\ events[i].event.session_id = <<(<<"a">>)>>

(***************************************************************************)
(* C18: batches are taken from rx in the order they were sent, one at a    *)
(* time, the next one only when every path of the current one has been     *)
(* processed; the paths of a batch are processed in the order the batch    *)
(* lists them; a path gives at most one event, and a path whose extension  *)
(* is not "json" gives none.                                               *)
(***************************************************************************)
\* the place of a path in the batch of item n
PosIn(n, path) == CHOOSE k \in 1..Len(sent[n].paths) : sent[n].paths[k] = path

C18_BatchOrder ==
    /\ [](\A i \in 1..Len(events) :
            /\ IsRecordName(events[i].path)
            /\ events[i].path \in PathsOf(events[i].n))
    /\ [](\A i, j \in 1..Len(events) :
            i < j =>
                \/ events[i].n < events[j].n
                \/ /\ events[i].n = events[j].n
                   /\ PosIn(events[i].n, events[i].path) < PosIn(events[j].n, events[j].path))
    /\ [][recvd' # recvd =>
            /\ recvd' = recvd + 1
            /\ cur.paths = <<>>
            /\ cur' = [n |-> recvd + 1, paths |-> sent[recvd + 1].paths]]_vars
    /\ [][cur' # cur /\ cur.paths # <<>> =>
            /\ recvd' = recvd
            /\ cur' = [n |-> cur.n, paths |-> Tail(cur.paths)]]_vars
    /\ [][events' # events =>
            /\ EmitsOne
            /\ cur.paths # <<>> /\ Last(events').path = cur.paths[1]
            /\ Last(events').n = cur.n /\ cur.n = recvd]_vars

\* a batch of two record paths has given two events in the order of its
\* paths, and a batch with a path that is no record file has given one
C18_Witness ==
    /\ \E n \in 1..Len(sent) :
         /\ Len(sent[n].paths) = 2 /\ Handled(n)
         /\ Len(EventsOf(n)) = 2
         /\ EventsOf(n)[1].path = sent[n].paths[1]
         /\ EventsOf(n)[2].path = sent[n].paths[2]
    /\ \E n \in 1..Len(sent) :
         /\ Len(sent[n].paths) = 2 /\ Handled(n)
         /\ ~IsRecordName(sent[n].paths[2])
         /\ Len(EventsOf(n)) = 1

(***************************************************************************)
(* C19: a consumer that starts from the snapshot of get_sessions and       *)
(* applies the events emitted after it ends up, once every notification    *)
(* is processed, with the valid records of the directory.  Stated for the  *)
(* runs most favourable to the code: the snapshot is taken of a directory  *)
(* at rest, every later change is reported to a watcher already            *)
(* subscribed, and every event is emitted after the snapshot and           *)
(* delivered.                                                              *)
(***************************************************************************)
\* the consumer's sessions after one event: an update inserts or replaces
\* by id, a remove deletes by sessionId
Apply(view, e) ==
    IF e.event_type = "update"
    THEN {s \in view : s.id # e.session[1].id} \cup {e.session[1]}
    ELSE {s \in view : s.id # e.session_id[1]}

RECURSIVE ApplyAll(_, _)
ApplyAll(view, evs) ==
    IF evs = <<>> THEN view ELSE ApplyAll(Apply(view, evs[1].event), Tail(evs))

\* the consumer's sessions: the last snapshot, then the events delivered
\* since it returned
Consumer ==
    ApplyAll(ResultSet, SelectSeq(events, LAMBDA e : e.delivered /\ e.after = calls))

\* the directory before the first change the backend reported
FirstDir == IF sent = <<>> THEN files ELSE sent[1].before

\* the snapshot was taken of the directory at rest, before any change; all
\* changes were reported and processed, and all events came after the
\* snapshot and were delivered
Settled ==
    /\ calls = 1 /\ gpc \in {"done", "idle"} /\ gsnaps = {FirstDir}
    /\ wpc = "recv" /\ backend = "live"
    /\ writes = Len(sent) /\ recvd = Len(sent)
    /\ \A i \in 1..Len(events) : events[i].delivered /\ events[i].after = calls

C19_Converges == Settled => Consumer = GoodSet(files)

\* a settled run in which the writer changed the directory, an event was
\* applied, and the consumer holds a session the directory does not
C19_Witness ==
    /\ Settled /\ events # <<>>
    /\ Consumer # GoodSet(files)
    /\ \E s \in Consumer : s \notin GoodSet(files)

(***************************************************************************)
(* C20, as the code has it: a remove event is emitted for a notified path  *)
(* with the record extension that does not exist when the watcher checks   *)
(* it, and for nothing else.  Its sessionId is made from the file name     *)
(* alone, every ".json" at its end removed; what the file held, and        *)
(* whether a session of that id was ever reported, plays no part.          *)
(***************************************************************************)
C20_RemoveFromAbsence ==
    /\ [][/\ Len(events') > Len(events)
          /\ Last(events').event.event_type = "remove"
          => /\ EmitsOne
             /\ wpc = "exists" /\ cur.paths # <<>>
             /\ Last(events').path = cur.paths[1]
             /\ IsRecordName(cur.paths[1])
             /\ files[cur.paths[1]] = <<>>
             /\ Len(Last(events').event.session_id) = 1
             /\ StrippedOf(Last(events').event.session_id[1], cur.paths[1])]_vars
    /\ [](\A i \in 1..Len(events) :
            events[i].event.event_type = "remove" =>
                /\ events[i].n \in 1..Len(sent)
                /\ events[i].path \in PathsOf(events[i].n)
                /\ IsRecordName(events[i].path)
                /\ events[i].event.session = <<>>)

\* the session the remove event i names was reported before it: by an
\* earlier update, or by the snapshot that had returned when i was emitted
Known(i) ==
    \/ \E j \in 1..(i - 1) :
         /\ events[j].event.event_type = "update"
         /\ events[j].event.session[1].id = events[i].event.session_id[1]
    \/ /\ events[i].after >= 1
       /\ events[i].after = calls =>
            \E k \in 1..Len(gres) : gres[k].session.id = events[i].event.session_id[1]

\* a remove event was emitted for a file that never held a valid record,
\* with no update and no snapshot before it
C20_Witness ==
    \E i \in 1..Len(events) :
        /\ events[i].event.event_type = "remove"
        /\ ~Known(i) /\ events[i].after = 0
        /\ \A j \in 1..(i - 1) : events[j].event.event_type # "update"
        /\ sent[events[i].n].before[events[i].path] # <<>>
        /\ sent[events[i].n].before[events[i].path][1] \in BadTexts

\* C20 as stated: every remove event names a session reported before it
C20_Original ==
    \A i \in 1..Len(events) : events[i].event.event_type = "remove" => Known(i)

====
